---- MODULE Spec2Model ----
(***************************************************************************)
(* Continual-learning training of a bi-encoder: the task-stream splitter   *)
(* (DataModule._make_set_splits), the EWC strategy (EWC) and the per-task  *)
(* orchestration loop (Experiment.execute / Experiment.run_training).      *)
(*                                                                         *)
(* Four specifications share the variables:                                *)
(*   SpecSplit  one call of DataModule._make_set_splits                    *)
(*   SpecSched  the LambdaLR scheduler of BiEncoder.configure_scheduler    *)
(*   SpecEWC    the EWC callback and the training step of BiEncoder,       *)
(*              driven through a stream of tasks                           *)
(*   SpecRun    Experiment.execute: setup, run_training, run_testing       *)
(* Each one keeps the variables of the others at their initial value.      *)
(***************************************************************************)
EXTENDS Integers, Sequences, FiniteSets, TLC

VARIABLES
    \* ---- DataModule._make_set_splits
    data,        \* the list read from the dataset file, shuffled in place by the call
    sizes,       \* cfg.run_type.sizes
    baseline,    \* cfg.run_type.baseline
    split_size,  \* the split_size argument, in halves (0 -> 0, 1 -> 0.5, 2 -> 1.0)
    chunks,      \* the list the call returns
    split_pc,    \* "ready" | "returned" | "IndexError"
    \* ---- EWC (self.*), the module it is attached to and the trainer driving it
    ewc_lambda,      \* self.ewc_lambda
    params,          \* self.params: name -> value
    means,           \* self._means: name -> value
    fisher_matrix,   \* self.fisher_matrix: name -> sum of squared gradients
    fisher_len,      \* len(dataloader) the entries of fisher_matrix are divided by
    weights,         \* pl_module.named_parameters(): name -> value
    requires_grad,   \* the names n with p.requires_grad
    n_batches,       \* len(trainer.train_dataloader) of the task being fitted
    batch_idx,       \* training steps of the task taken so far
    base_loss,       \* the loss handed to on_before_backward
    loss,            \* the loss it returns: [num, den], the value num / den
    weights_at_start,\* the parameter values when on_train_start was called
    fisher_passes,   \* calls of _diag_fisher so far
    has_shared_step, \* whether pl_module has the attribute shared_step
    pass_grads,      \* p.grad after each batch of the last _diag_fisher: batch -> name -> value
    stages,          \* the stages of the current training step entered so far
    ewc_pc,          \* position of the trainer in the task and in its training step
    \* ---- BiEncoder.configure_scheduler and the LambdaLR it builds
    warmup_steps,    \* cfg.biencoder.warmup_steps
    max_iterations,  \* self.max_iterations
    last_epoch,      \* LambdaLR.last_epoch, the step lr_lambda was last called with
    lr_factor,       \* lr_lambda(last_epoch): [num, den], the value num / den
    prev_factor,     \* lr_lambda(last_epoch - 1), lr_factor itself at step 0
    \* ---- the task loop of Experiment.run_training, shared by SpecEWC and SpecRun
    task_id,         \* trainer.task_id
    stream_pos,      \* i, the position in the task stream
    id_override,     \* id_ = cfg.experiment.get('id')
    \* ---- Experiment (self.*) under execute
    logging_on,      \* cfg.logging_on
    experiment_name, \* cfg.experiment.name
    n_tasks,         \* pairs in zip(self.train_dataloader, self.val_dataloader)
    experiment_id,   \* self.experiment_id
    experiment_time, \* the time trainer.fit took for the task
    training_time,   \* self.training_time
    index_path,      \* self.index_path
    test_path,       \* self.test_path
    alerts,          \* the calls of wandb.alert, in order
    metrics,         \* the calls of wandb.log, in order
    dumps,           \* the calls of pickle_dump, in order: [path, task]
    steps,           \* the steps of the loop entered so far: <<step, i>>
    exc,             \* the exception raised inside execute, NoError if none
    raised_after,    \* Len(steps) when it was raised
    caught,          \* the times the except clause of execute has run
    propagated,      \* the exception that left execute, NoError if none
    run_pc           \* position inside execute

split_vars == <<data, sizes, baseline, split_size, chunks, split_pc>>

ewc_vars == <<ewc_lambda, params, means, fisher_matrix, fisher_len, weights,
              requires_grad, n_batches, batch_idx, base_loss, loss, weights_at_start,
              fisher_passes, has_shared_step, pass_grads, stages, ewc_pc>>

sched_vars == <<warmup_steps, max_iterations, last_epoch, lr_factor, prev_factor>>

task_vars == <<task_id, stream_pos, id_override>>

run_vars == <<logging_on, experiment_name, n_tasks, experiment_id, experiment_time,
              training_time, index_path, test_path, alerts, metrics, dumps, steps,
              exc, raised_after, caught, propagated, run_pc>>

vars == <<split_vars, ewc_vars, sched_vars, task_vars, run_vars>>

\* Python's None, where an integer may stand as well: a value that is no id.
None == 0 - 1
NoError == ""
NoName == ""
NoPath == <<>>

Last(s) == s[Len(s)]
Min(a, b) == IF a < b THEN a ELSE b
Max(a, b) == IF a > b THEN a ELSE b

(***************************************************************************)
(* Bounds of the model.                                                    *)
(***************************************************************************)
MaxData == 3        \* records in a dataset file: 0..MaxData
MaxBoundaries == 3  \* entries of cfg.run_type.sizes: 0..MaxBoundaries
MaxTasks == 2       \* tasks in the stream: 0..MaxTasks
MaxBatches == 2     \* batches of a task's training dataloader: 0..MaxBatches
MaxVal == 1         \* parameter values and base losses: 0..MaxVal
MaxLambda == 1      \* ewc_lambda: 0..MaxLambda
MaxId == 1          \* cfg.experiment.id, when given: 0..MaxId
MaxWarmup == 32     \* cfg.biencoder.warmup_steps: 0..MaxWarmup
MaxIterations == 1  \* max_iterations of the BiEncoder: 0..MaxIterations
MaxSchedSteps == 34 \* calls of scheduler.step() on one LambdaLR: 0..MaxSchedSteps

\* The strategy at rest, for the specifications that do not drive it.
EWCIdle ==
    /\ ewc_lambda = 0 /\ params = <<>> /\ means = <<>> /\ fisher_matrix = <<>>
    /\ fisher_len = 1 /\ weights = <<>> /\ requires_grad = {}
    /\ n_batches = 0 /\ batch_idx = 0
    /\ base_loss = 0 /\ loss = [num |-> 0, den |-> 1] /\ weights_at_start = <<>>
    /\ fisher_passes = 0 /\ has_shared_step = FALSE /\ pass_grads = <<>>
    /\ stages = <<>> /\ ewc_pc = "off"

\* No scheduler built, for the specifications that do not step one.
SchedIdle ==
    /\ warmup_steps = 0 /\ max_iterations = 0 /\ last_epoch = 0
    /\ lr_factor = [num |-> 0, den |-> 1] /\ prev_factor = [num |-> 0, den |-> 1]

\* The task loop at rest.
TaskIdle == task_id = 0 /\ stream_pos = 0 /\ id_override = None

\* Experiment.execute not entered.
RunIdle ==
    /\ logging_on = FALSE /\ experiment_name = NoName /\ n_tasks = 0
    /\ experiment_id = 0 /\ experiment_time = 0 /\ training_time = 0
    /\ index_path = NoPath /\ test_path = NoPath
    /\ alerts = <<>> /\ metrics = <<>> /\ dumps = <<>> /\ steps = <<>>
    /\ exc = NoError /\ raised_after = 0 /\ caught = 0 /\ propagated = NoError
    /\ run_pc = "off"

(***************************************************************************)
(* DataModule._make_set_splits                                             *)
(***************************************************************************)

\* A slice that starts one element late.
PySliceOffByOne(s, a, b) ==
    LET n == Len(s)
        lo == IF a < 0 THEN Max(a + n, 0) ELSE Min(a, n)
        hi == IF b < 0 THEN Max(b + n, 0) ELSE Min(b, n)
    IN  IF lo + 1 < hi THEN SubSeq(s, lo + 2, hi) ELSE <<>>

\* Python's s[a:b] on a list: negative indices count from the end, both ends are
\* clamped to the list, and an empty range yields the empty list (never an error).
PySlice(s, a, b) ==
    LET n == Len(s)
        lo == IF a < 0 THEN Max(a + n, 0) ELSE Min(a, n)
        hi == IF b < 0 THEN Max(b + n, 0) ELSE Min(b, n)
    IN  IF lo < hi THEN SubSeq(s, lo + 1, hi) ELSE <<>>

\* chunk_sizes after lines 36-39: scaled by split_size when it is truthy.
\* split is in halves, so int(size * split_size) is (size * split) \div 2.
ChunkSizes(ss, split) ==
    IF split # 0 THEN [j \in DOMAIN ss |-> (ss[j] * split) \div 2] ELSE ss

\* Chunks whose first slice starts at record 0 instead of at the first boundary.
ContinualChunksFromZero(d, cs) ==
    [i \in 1..(Len(cs) - 1) |-> PySlice(d, IF i = 1 THEN 0 ELSE cs[i], cs[i + 1])]

\* The else branch, lines 45-49: one slice per pair of neighbouring boundaries.
ContinualChunks(d, cs) ==
    [i \in 1..(Len(cs) - 1) |-> PySlice(d, cs[i], cs[i + 1])]

\* A baseline chunk that is not cut at the last boundary.
BaselineChunksAll(d, cs) == <<d>>

\* The baseline branch, lines 41-43: data[:chunk_sizes[-1]] as the only chunk.
BaselineChunks(d, cs) == <<PySlice(d, 0, cs[Len(cs)])>>

\* random.shuffle(data): any permutation of the list.
Shuffles(d) ==
    LET n == Len(d)
        perms == {f \in [1..n -> 1..n] : \A i, j \in 1..n : i # j => f[i] # f[j]}
    IN  {[i \in 1..n |-> d[f[i]]] : f \in perms}

BoundaryLists ==
    UNION {[1..n -> 0..(MaxData + 1)] : n \in 0..MaxBoundaries}

SplitInit ==
    /\ data \in {[i \in 1..n |-> i] : n \in 0..MaxData}
    /\ sizes \in BoundaryLists
    /\ baseline \in BOOLEAN
    /\ split_size \in {0, 1, 2}
    /\ chunks = <<>>
    /\ split_pc = "ready"
    /\ EWCIdle /\ SchedIdle /\ TaskIdle /\ RunIdle

\* One call of _make_set_splits, lines 31-51.  TrainingDataset(chunk, negatives)
\* wraps the slice it is given; the chunk is modelled by that slice.
MakeSetSplits ==
    /\ split_pc = "ready"
    /\ \E shuffled \in Shuffles(data) :
         LET cs == ChunkSizes(sizes, split_size) IN
         /\ data' = shuffled
         /\ IF baseline
            THEN IF Len(cs) = 0
                 THEN chunks' = <<>> /\ split_pc' = "IndexError"
                 ELSE chunks' = BaselineChunks(shuffled, cs) /\ split_pc' = "returned"
            ELSE chunks' = ContinualChunks(shuffled, cs) /\ split_pc' = "returned"
    /\ UNCHANGED <<sizes, baseline, split_size>>
    /\ UNCHANGED <<ewc_vars, sched_vars, task_vars, run_vars>>

SplitNext == MakeSetSplits

SpecSplit == SplitInit /\ [][SplitNext]_vars

\* The splitter at rest, for the specifications that do not call it.
SplitIdle ==
    /\ data = <<>> /\ sizes = <<>> /\ baseline = FALSE /\ split_size = 0
    /\ chunks = <<>> /\ split_pc = "idle"

(***************************************************************************)
(* The learning-rate schedule of BiEncoder.configure_scheduler             *)
(* (dpr/models/biencoder.py): lr_lambda and the LambdaLR that calls it.    *)
(* A factor is the exact quotient [num, den] with den > 0; the divisions   *)
(* of the code are between integers these quotients represent.             *)
(***************************************************************************)
StepsPerIteration == 30   \* total_training_steps = self.max_iterations * 30
FloorDen == 10000000      \* the floor 1e-7 of lr_lambda, as 1 / FloorDen

RatLeq(a, b) == a.num * b.den <= b.num * a.den
RatEq(a, b) == a.num * b.den = b.num * a.den
RatMax(a, b) == IF RatLeq(b, a) THEN a ELSE b

\* configure_scheduler, line 64.
TotalTrainingSteps(mi) == mi * StepsPerIteration

\* A factor whose decay is not floored.
LrLambdaNoFloor(current_step, w, T) ==
    IF current_step < w
    THEN [num |-> current_step, den |-> Max(1, w)]
    ELSE [num |-> T - current_step, den |-> Max(1, T - w)]

\* lr_lambda, lines 66-72.
LrLambda(current_step, w, T) ==
    IF current_step < w
    THEN [num |-> current_step, den |-> Max(1, w)]
    ELSE RatMax([num |-> 1, den |-> FloorDen],
                [num |-> T - current_step, den |-> Max(1, T - w)])

\* configure_scheduler, line 74: LambdaLR(optimizer, lr_lambda) starts at
\* last_epoch = 0 with the factor lr_lambda(0).
NewLambdaLR(w, mi) ==
    /\ last_epoch' = 0
    /\ lr_factor' = LrLambda(0, w, TotalTrainingSteps(mi))
    /\ prev_factor' = LrLambda(0, w, TotalTrainingSteps(mi))

\* LambdaLR.step(): last_epoch += 1 and the factor becomes lr_lambda(last_epoch).
StepLambdaLR ==
    /\ last_epoch' = last_epoch + 1
    /\ lr_factor' = LrLambda(last_epoch + 1, warmup_steps,
                             TotalTrainingSteps(max_iterations))
    /\ prev_factor' = lr_factor

SchedInit ==
    /\ SplitIdle /\ EWCIdle /\ TaskIdle /\ RunIdle
    /\ warmup_steps \in 0..MaxWarmup
    /\ max_iterations \in 0..MaxIterations
    /\ last_epoch = 0
    /\ lr_factor = LrLambda(0, warmup_steps, TotalTrainingSteps(max_iterations))
    /\ prev_factor = lr_factor

\* configure_optimizers, line 89: configure_scheduler replaces self.scheduler.
ConfigureScheduler ==
    /\ UNCHANGED <<split_vars, ewc_vars, task_vars, run_vars>>
    /\ last_epoch > 0
    /\ NewLambdaLR(warmup_steps, max_iterations)
    /\ UNCHANGED <<warmup_steps, max_iterations>>

\* self.scheduler.step() on its own, one call after the other.
LambdaLRStep ==
    /\ UNCHANGED <<split_vars, ewc_vars, task_vars, run_vars>>
    /\ last_epoch < MaxSchedSteps
    /\ StepLambdaLR
    /\ UNCHANGED <<warmup_steps, max_iterations>>

SchedNext ==
    \/ ConfigureScheduler
    \/ LambdaLRStep

SpecSched == SchedInit /\ [][SchedNext]_vars

(***************************************************************************)
(* EWC, the strategy callback (continual_learning/ewc.py), driven by a     *)
(* trainer that fits the tasks of the stream one after the other.          *)
(***************************************************************************)
ParamNames == {"w", "b"}
Vals == 0..MaxVal
EmptyMap == [n \in {} |-> 0]

RECURSIVE SumOver(_, _)
SumOver(S, f) ==
    IF S = {} THEN 0
    ELSE LET x == CHOOSE y \in S : TRUE IN f[x] + SumOver(S \ {x}, f)

\* A task id that takes every given override, 0 included.
TaskIdAlwaysOverride(i, id_) == IF id_ # None THEN id_ ELSE i

\* experiment_id = i if not id_ else id_  (run_training, line 80): the override is
\* used when it is truthy, so neither None nor 0 overrides the stream position.
TaskId(i, id_) == IF id_ = None \/ id_ = 0 THEN i ELSE id_

\* EWC.__init__, lines 22-27: _means is filled from a copy of self.params, which
\* is the empty dict at that point.
InitMeans(ps) == [n \in DOMAIN ps |-> ps[n]]

\* on_train_start, line 58: the parameters that require a gradient.
Trainable(ws, rg) == [n \in DOMAIN ws \cap rg |-> ws[n]]

\* _diag_fisher, lines 30-33: a zeroed accumulator per entry of self.params.  The
\* zeroing acts on a deep copy, not on the parameters of the module.
ZeroedAccumulator(ps) == [n \in DOMAIN ps |-> 0]

\* _diag_fisher, lines 36-43: line 43 looks every named parameter up in the
\* accumulator, so a batch raises KeyError when a named parameter is not in it.
DiagFisherRaises(ps, ws, nb) == nb > 0 /\ ~(DOMAIN ws \subseteq DOMAIN ps)

\* An accumulator that adds the gradients themselves, not their squares.
DiagFisherUnsquared(ps, grads, nb) ==
    [n \in DOMAIN ps |-> SumOver(1..nb, [b \in 1..nb |-> grads[b][n]])]

\* _diag_fisher, lines 36-46: grads[b][n] is p.grad of parameter n after the
\* backward pass of batch b (pl_module.shared_step and loss.backward are taken as
\* the module's contract); each batch adds grad ** 2 / len(dataloader).  The
\* entry is kept as the sum of the squares, to be divided by FisherLen.
DiagFisher(ps, grads, nb) ==
    [n \in DOMAIN ps |-> SumOver(1..nb, [b \in 1..nb |-> grads[b][n] * grads[b][n]])]

FisherLen(nb) == IF nb > 0 THEN nb ELSE 1

\* _penalty, lines 50-51: the lookups self.fisher_matrix[n] and self._means[n]
\* raise KeyError for a named parameter that either dict lacks.
PenaltyRaises(ws, fm, ms) ==
    \E n \in DOMAIN ws : n \notin DOMAIN fm \/ n \notin DOMAIN ms

\* A penalty that leaves the Fisher weights out.
PenaltyUnweighted(ws, fm, ms) ==
    SumOver(DOMAIN ws, [n \in DOMAIN ws |-> (ws[n] - ms[n]) * (ws[n] - ms[n])])

\* _penalty, lines 49-53, times the common denominator of the Fisher entries.
Penalty(ws, fm, ms) ==
    SumOver(DOMAIN ws, [n \in DOMAIN ws |-> fm[n] * (ws[n] - ms[n]) * (ws[n] - ms[n])])

\* A penalised loss that leaves ewc_lambda out.
PenalisedLossNoLambda(l, lam, pen, den) == [num |-> l * den + pen, den |-> den]

\* on_before_backward, line 64: loss += ewc_lambda * penalty, as num / den.
PenalisedLoss(l, lam, pen, den) == [num |-> l * den + lam * pen, den |-> den]

\* p.grad of a parameter after a backward pass: of either sign, or zero.
Grads == {0 - 1, 0, 1}

\* _diag_fisher, line 40: pl_module.shared_step is looked up for every batch, and
\* the lookup raises AttributeError on a module that does not define it.
DiagFisherAttributeError(has, nb) == nb > 0 /\ ~has

\* A pass that zeroes the parameters it accumulates for.
AfterFisherPassZeroed(ws, ps) == [n \in DOMAIN ws |-> IF n \in DOMAIN ps THEN 0 ELSE ws[n]]

\* _diag_fisher, lines 30-46, as it acts on the parameters of the module: zero_()
\* of line 33 acts on the deep copy of line 30, zero_grad and backward of lines
\* 38 and 41 act on p.grad, and no optimizer is stepped.
AfterFisherPass(ws, ps) == ws

EWCInit ==
    /\ SplitIdle /\ RunIdle
    /\ ewc_lambda \in 0..MaxLambda
    /\ params = EmptyMap
    /\ means = InitMeans(EmptyMap)
    /\ fisher_matrix = EmptyMap
    /\ fisher_len = 1
    /\ \E named \in SUBSET ParamNames : weights \in [named -> Vals]
    /\ requires_grad \in SUBSET DOMAIN weights
    /\ task_id = 0
    /\ stream_pos = 0
    /\ id_override \in {None} \cup 0..MaxId
    /\ n_batches = 0
    /\ batch_idx = 0
    /\ base_loss = 0
    /\ loss = [num |-> 0, den |-> 1]
    /\ weights_at_start = weights
    /\ fisher_passes = 0
    /\ has_shared_step \in BOOLEAN
    /\ pass_grads = <<>>
    /\ stages = <<>>
    /\ ewc_pc = "idle"
    /\ warmup_steps \in 0..1
    /\ max_iterations = 1
    /\ last_epoch = 0
    /\ lr_factor = LrLambda(0, warmup_steps, TotalTrainingSteps(max_iterations))
    /\ prev_factor = lr_factor

\* run_training, lines 80-85: the task id is bound and trainer.fit is entered with
\* the task's training dataloader; fit calls configure_optimizers, which builds a
\* new scheduler (biencoder.py, line 89).
EnterFit ==
    /\ UNCHANGED <<split_vars, run_vars>>
    /\ ewc_pc = "idle"
    /\ stream_pos < MaxTasks
    /\ task_id' = TaskId(stream_pos, id_override)
    /\ n_batches' \in 0..MaxBatches
    /\ batch_idx' = 0
    /\ stages' = <<>>
    /\ NewLambdaLR(warmup_steps, max_iterations)
    /\ ewc_pc' = "fit"
    /\ UNCHANGED <<ewc_lambda, params, means, fisher_matrix, fisher_len, weights,
                   requires_grad, stream_pos, id_override, base_loss, loss,
                   weights_at_start, fisher_passes, has_shared_step, pass_grads,
                   warmup_steps, max_iterations>>

\* EWC.on_train_start, lines 55-59, with the whole of _diag_fisher.
OnTrainStart ==
    /\ UNCHANGED <<split_vars, run_vars, sched_vars>>
    /\ ewc_pc = "fit"
    /\ weights_at_start' = weights
    /\ IF task_id > 0
       THEN LET ps == Trainable(weights, requires_grad) IN
            /\ params' = ps
            /\ fisher_passes' = fisher_passes + 1
            /\ weights' = AfterFisherPass(weights, ps)
            /\ IF DiagFisherAttributeError(has_shared_step, n_batches)
               THEN /\ ewc_pc' = "fisher_AttributeError"
                    /\ UNCHANGED <<fisher_matrix, fisher_len, pass_grads>>
               ELSE IF DiagFisherRaises(ps, weights, n_batches)
               THEN /\ ewc_pc' = "fisher_KeyError"
                    /\ UNCHANGED <<fisher_matrix, fisher_len, pass_grads>>
               ELSE /\ \E grads \in [1..n_batches -> [DOMAIN weights -> Grads]] :
                         /\ pass_grads' = grads
                         /\ fisher_matrix' = DiagFisher(ZeroedAccumulator(ps), grads,
                                                        n_batches)
                    /\ fisher_len' = FisherLen(n_batches)
                    /\ ewc_pc' = "training"
       ELSE /\ ewc_pc' = "training"
            /\ UNCHANGED <<params, fisher_matrix, fisher_len, fisher_passes, weights,
                           pass_grads>>
    /\ UNCHANGED <<ewc_lambda, means, requires_grad, task_id, stream_pos,
                   id_override, n_batches, batch_idx, base_loss, loss,
                   has_shared_step, stages>>

\* BiEncoder.training_step, lines 133-134: optimizers.zero_grad() opens the step
\* and drops the gradients the Fisher pass left on the parameters.
ZeroGrad ==
    /\ UNCHANGED <<split_vars, run_vars, sched_vars>>
    /\ ewc_pc = "training"
    /\ batch_idx < n_batches
    /\ stages' = <<"zero_grad">>
    /\ pass_grads' = <<>>
    /\ ewc_pc' = "forward"
    /\ UNCHANGED <<ewc_lambda, params, means, fisher_matrix, fisher_len, weights,
                   requires_grad, task_id, stream_pos, id_override, n_batches,
                   batch_idx, base_loss, loss, weights_at_start, fisher_passes,
                   has_shared_step>>

\* BiEncoder.training_step, line 136: _shared_step runs the forward pass and
\* returns the base loss of the batch.
SharedStep ==
    /\ UNCHANGED <<split_vars, run_vars, sched_vars>>
    /\ ewc_pc = "forward"
    /\ base_loss' \in Vals
    /\ stages' = Append(stages, "forward")
    /\ ewc_pc' = "hook"
    /\ UNCHANGED <<ewc_lambda, params, means, fisher_matrix, fisher_len, weights,
                   requires_grad, task_id, stream_pos, id_override, n_batches,
                   batch_idx, loss, weights_at_start, fisher_passes,
                   has_shared_step, pass_grads>>

\* EWC.on_before_backward, lines 61-65, which manual_backward (training_step, line
\* 138) calls with the base loss before it runs the backward pass.
OnBeforeBackward ==
    /\ UNCHANGED <<split_vars, run_vars, sched_vars>>
    /\ ewc_pc = "hook"
    /\ stages' = Append(stages, "penalty")
    /\ IF PenaltyRaises(weights, fisher_matrix, means)
       THEN ewc_pc' = "penalty_KeyError" /\ UNCHANGED loss
       ELSE /\ loss' = PenalisedLoss(base_loss, ewc_lambda,
                                     Penalty(weights, fisher_matrix, means), fisher_len)
            /\ ewc_pc' = "backward"
    /\ UNCHANGED <<ewc_lambda, params, means, fisher_matrix, fisher_len, weights,
                   requires_grad, task_id, stream_pos, id_override, n_batches,
                   batch_idx, base_loss, weights_at_start, fisher_passes,
                   has_shared_step, pass_grads>>

\* BiEncoder.training_step, line 138: the backward pass of manual_backward, on the
\* loss the hook has added the penalty to in place.
Backward ==
    /\ UNCHANGED <<split_vars, run_vars, sched_vars>>
    /\ ewc_pc = "backward"
    /\ stages' = Append(stages, "backward")
    /\ ewc_pc' = "clip"
    /\ UNCHANGED <<ewc_lambda, params, means, fisher_matrix, fisher_len, weights,
                   requires_grad, task_id, stream_pos, id_override, n_batches,
                   batch_idx, base_loss, loss, weights_at_start, fisher_passes,
                   has_shared_step, pass_grads>>

\* BiEncoder.on_after_backward, lines 175-176: clip_grad_norm_ on the gradients,
\* called by manual_backward once the backward pass is done.
OnAfterBackward ==
    /\ UNCHANGED <<split_vars, run_vars, sched_vars>>
    /\ ewc_pc = "clip"
    /\ stages' = Append(stages, "clip")
    /\ ewc_pc' = "step"
    /\ UNCHANGED <<ewc_lambda, params, means, fisher_matrix, fisher_len, weights,
                   requires_grad, task_id, stream_pos, id_override, n_batches,
                   batch_idx, base_loss, loss, weights_at_start, fisher_passes,
                   has_shared_step, pass_grads>>

\* BiEncoder.training_step, line 139: the optimizer step, which may move every
\* parameter that requires a gradient.
OptimizerStep ==
    /\ UNCHANGED <<split_vars, run_vars, sched_vars>>
    /\ ewc_pc = "step"
    /\ \E ws \in [DOMAIN weights -> Vals] :
         /\ \A n \in DOMAIN weights \ requires_grad : ws[n] = weights[n]
         /\ weights' = ws
    /\ stages' = Append(stages, "optimizer_step")
    /\ ewc_pc' = "schedule"
    /\ UNCHANGED <<ewc_lambda, params, means, fisher_matrix, fisher_len, requires_grad,
                   task_id, stream_pos, id_override, n_batches, batch_idx, base_loss,
                   loss, weights_at_start, fisher_passes, has_shared_step, pass_grads>>

\* BiEncoder.training_step, line 140: self.scheduler.step() closes the step.
SchedulerStep ==
    /\ UNCHANGED <<split_vars, run_vars>>
    /\ ewc_pc = "schedule"
    /\ StepLambdaLR
    /\ stages' = Append(stages, "scheduler_step")
    /\ batch_idx' = batch_idx + 1
    /\ ewc_pc' = "training"
    /\ UNCHANGED <<ewc_lambda, params, means, fisher_matrix, fisher_len, weights,
                   requires_grad, task_id, stream_pos, id_override, n_batches,
                   base_loss, loss, weights_at_start, fisher_passes,
                   has_shared_step, pass_grads, warmup_steps, max_iterations>>

\* trainer.fit returns once every batch is consumed; the loop of run_training moves
\* to the next task of the stream.
EndFit ==
    /\ UNCHANGED <<split_vars, run_vars, sched_vars>>
    /\ ewc_pc = "training"
    /\ batch_idx = n_batches
    /\ stream_pos' = stream_pos + 1
    /\ ewc_pc' = "idle"
    /\ UNCHANGED <<ewc_lambda, params, means, fisher_matrix, fisher_len, weights,
                   requires_grad, task_id, id_override, n_batches, batch_idx,
                   base_loss, loss, weights_at_start, fisher_passes,
                   has_shared_step, pass_grads, stages>>

EWCNext ==
    \/ EnterFit
    \/ OnTrainStart
    \/ ZeroGrad
    \/ SharedStep
    \/ OnBeforeBackward
    \/ Backward
    \/ OnAfterBackward
    \/ OptimizerStep
    \/ SchedulerStep
    \/ EndFit

SpecEWC == EWCInit /\ [][EWCNext]_vars

(***************************************************************************)
(* Experiment.execute (experiments/experiment.py) around                   *)
(* Experiment.run_training and its helpers (experiment/experiment.py).     *)
(* One action per step of the loop; a step that calls a collaborator       *)
(* (trainer, dataloaders, pickle_dump, Evaluator) either completes or      *)
(* raises an exception at that call.                                       *)
(***************************************************************************)
Errors == {"OOM", "IOError"}
Names == {"dpr"}

\* A loop that records the task's time after the evaluation instead of before it.
StepAfterTimeLast(p) ==
    CASE p = "setup" -> "run_training"
      [] p = "run_training" -> "loop"
      [] p = "bind" -> "fit"
      [] p = "fit" -> "index"
      [] p = "index" -> "test"
      [] p = "test" -> "evaluate"
      [] p = "evaluate" -> "record"
      [] p = "record" -> "release"
      [] p = "release" -> "loop"
      [] p = "finish" -> "run_testing"
      [] p = "run_testing" -> "returned"

\* The statement reached after each step of execute / run_training completes.
StepAfter(p) ==
    CASE p = "setup" -> "run_training"
      [] p = "run_training" -> "loop"
      [] p = "bind" -> "fit"
      [] p = "fit" -> "record"
      [] p = "record" -> "index"
      [] p = "index" -> "test"
      [] p = "test" -> "evaluate"
      [] p = "evaluate" -> "release"
      [] p = "release" -> "loop"
      [] p = "finish" -> "run_testing"
      [] p = "run_testing" -> "returned"

\* Experiment.alert, lines 42-44: wandb.alert is called only when logging is on.
AlertAll(as) == IF logging_on THEN alerts \o as ELSE alerts

\* Experiment.wandb_log, lines 53-55.
WandbLog(ms) == IF logging_on THEN metrics \o ms ELSE metrics

AlertOf(title, name, task, text) ==
    [title |-> title, name |-> name, task |-> task, text |-> text, level |-> "INFO"]

\* A crash alert that also names the run and the task.
CrashAlertWithTask(e) ==
    [title |-> "Run has crashed!", name |-> experiment_name, task |-> stream_pos,
     text |-> e, level |-> "ERROR"]

\* execute, lines 92-96: title 'Run has crashed!', text f'Error: {e}'.
CrashAlert(e) ==
    [title |-> "Run has crashed!", name |-> NoName, task |-> None,
     text |-> e, level |-> "ERROR"]

\* An except clause that ends without raising.
Swallow(e) == [pc |-> "returned", exc |-> NoError]

\* execute, line 97: a bare raise hands the caught exception on to the caller.
Reraise(e) == [pc |-> "raised", exc |-> e]

\* f'index_{self.experiment_name}_{self.experiment_id}', _index line 115.
IndexPath(name, id) == <<"index", name, id>>

\* f'test_{self.experiment_name}_{self.experiment_id}', _test line 140.
TestPath(name, id) == <<"test", name, id>>

\* An exception e leaves the step and reaches the except clause of execute.
Raise(e, entered) ==
    /\ exc' = e
    /\ raised_after' = Len(entered)
    /\ run_pc' = "except"

RunInit ==
    /\ SplitIdle /\ EWCIdle /\ SchedIdle
    /\ task_id = 0 /\ stream_pos = 0
    /\ id_override \in {None} \cup 0..MaxId
    /\ logging_on \in BOOLEAN
    /\ experiment_name \in Names
    /\ n_tasks \in 0..MaxTasks
    /\ experiment_id = 0 /\ experiment_time = 0 /\ training_time = 0
    /\ index_path = NoPath /\ test_path = NoPath
    /\ alerts = <<>> /\ metrics = <<>> /\ dumps = <<>> /\ steps = <<>>
    /\ exc = NoError /\ raised_after = 0 /\ caught = 0 /\ propagated = NoError
    /\ run_pc = "setup"

\* execute, line 88: self.setup().
Setup ==
    /\ run_pc = "setup"
    /\ \/ run_pc' = StepAfter("setup") /\ UNCHANGED <<exc, raised_after>>
       \/ \E e \in Errors : Raise(e, steps)
    /\ UNCHANGED <<split_vars, ewc_vars, sched_vars, task_vars>>
    /\ UNCHANGED <<logging_on, experiment_name, n_tasks, experiment_id, experiment_time,
                   training_time, index_path, test_path, alerts, metrics, dumps, steps,
                   caught, propagated>>

\* run_training, lines 58-65: the start alert, id_ is read, tracemalloc starts.
StartTraining ==
    /\ run_pc = "run_training"
    /\ alerts' = AlertAll(<<AlertOf("Training started!", experiment_name, None, "cfg")>>)
    /\ run_pc' = StepAfter("run_training")
    /\ UNCHANGED <<split_vars, ewc_vars, sched_vars, task_vars>>
    /\ UNCHANGED <<logging_on, experiment_name, n_tasks, experiment_id, experiment_time,
                   training_time, index_path, test_path, metrics, dumps, steps,
                   exc, raised_after, caught, propagated>>

\* run_training, lines 66-82: the next pair of dataloaders is taken, the sizes are
\* bound, the task's start alert is sent and the task id is bound.
BindTask ==
    /\ run_pc = "loop"
    /\ stream_pos < n_tasks
    /\ steps' = Append(steps, <<"bind", stream_pos>>)
    /\ \/ /\ alerts' = AlertAll(<<AlertOf("Experiment started!", experiment_name,
                                          stream_pos, "sizes")>>)
          /\ experiment_id' = TaskId(stream_pos, id_override)
          /\ task_id' = TaskId(stream_pos, id_override)
          /\ run_pc' = StepAfter("bind")
          /\ UNCHANGED <<exc, raised_after>>
       \/ /\ \E e \in Errors : Raise(e, steps')
          /\ UNCHANGED <<alerts, experiment_id, task_id>>
    /\ UNCHANGED <<split_vars, ewc_vars, sched_vars, stream_pos, id_override>>
    /\ UNCHANGED <<logging_on, experiment_name, n_tasks, experiment_time, training_time,
                   index_path, test_path, metrics, dumps, caught, propagated>>

\* run_training, lines 84-86: trainer.fit, timed.
Fit ==
    /\ run_pc = "fit"
    /\ steps' = Append(steps, <<"fit", stream_pos>>)
    /\ \/ /\ experiment_time' \in Vals
          /\ run_pc' = StepAfter("fit")
          /\ UNCHANGED <<exc, raised_after>>
       \/ /\ \E e \in Errors : Raise(e, steps')
          /\ UNCHANGED experiment_time
    /\ UNCHANGED <<split_vars, ewc_vars, sched_vars, task_vars>>
    /\ UNCHANGED <<logging_on, experiment_name, n_tasks, experiment_id, training_time,
                   index_path, test_path, alerts, metrics, dumps, caught, propagated>>

\* run_training, lines 88-91: the task's time is added to training_time and logged,
\* and the accelerator cache is emptied.
RecordTime ==
    /\ run_pc = "record"
    /\ steps' = Append(steps, <<"time", stream_pos>>)
    /\ training_time' = training_time + experiment_time
    /\ metrics' = WandbLog(<<[key |-> "experiment_time", value |-> experiment_time,
                             task |-> experiment_id]>>)
    /\ run_pc' = StepAfter("record")
    /\ UNCHANGED <<split_vars, ewc_vars, sched_vars, task_vars>>
    /\ UNCHANGED <<logging_on, experiment_name, n_tasks, experiment_id, experiment_time,
                   index_path, test_path, alerts, dumps, exc, raised_after, caught,
                   propagated>>

\* _evaluate, lines 145-148, with the whole of _index, lines 105-123.
Index ==
    /\ run_pc = "index"
    /\ steps' = Append(steps, <<"index", stream_pos>>)
    /\ LET path == IndexPath(experiment_name, experiment_id)
           started == AlertOf("Indexing started!", experiment_name, None, "size")
           finished == AlertOf("Indexing finished!", NoName, None, "shape")
       IN  \/ /\ alerts' = AlertAll(<<started, finished>>)
              /\ index_path' = path
              /\ dumps' = Append(dumps, [path |-> path, task |-> stream_pos])
              /\ run_pc' = StepAfter("index")
              /\ UNCHANGED <<exc, raised_after>>
           \/ /\ \E e \in Errors : Raise(e, steps')      \* trainer.test raises
              /\ alerts' = AlertAll(<<started>>)
              /\ UNCHANGED <<index_path, dumps>>
           \/ /\ \E e \in Errors : Raise(e, steps')      \* pickle_dump raises
              /\ alerts' = AlertAll(<<started, finished>>)
              /\ index_path' = path
              /\ UNCHANGED dumps
    /\ UNCHANGED <<split_vars, ewc_vars, sched_vars, task_vars>>
    /\ UNCHANGED <<logging_on, experiment_name, n_tasks, experiment_id, experiment_time,
                   training_time, test_path, metrics, caught, propagated>>

\* _evaluate, line 149, with the whole of _test, lines 125-142.
Test ==
    /\ run_pc = "test"
    /\ steps' = Append(steps, <<"test", stream_pos>>)
    /\ LET path == TestPath(experiment_name, experiment_id)
           started == AlertOf("Testing started!", experiment_name, experiment_id, "size")
           finished == AlertOf("Testing finished!", NoName, None, "shape")
       IN  \/ /\ alerts' = AlertAll(<<started, finished>>)
              /\ test_path' = path
              /\ dumps' = Append(dumps, [path |-> path, task |-> stream_pos])
              /\ run_pc' = StepAfter("test")
              /\ UNCHANGED <<exc, raised_after>>
           \/ /\ \E e \in Errors : Raise(e, steps')      \* trainer.test raises
              /\ alerts' = AlertAll(<<started>>)
              /\ UNCHANGED <<test_path, dumps>>
           \/ /\ \E e \in Errors : Raise(e, steps')      \* pickle_dump raises
              /\ alerts' = AlertAll(<<started, finished>>)
              /\ test_path' = path
              /\ UNCHANGED dumps
    /\ UNCHANGED <<split_vars, ewc_vars, sched_vars, task_vars>>
    /\ UNCHANGED <<logging_on, experiment_name, n_tasks, experiment_id, experiment_time,
                   training_time, index_path, metrics, caught, propagated>>

\* _evaluate, lines 151-168: the Evaluator is built and run, its scores are logged.
Evaluate ==
    /\ run_pc = "evaluate"
    /\ steps' = Append(steps, <<"evaluate", stream_pos>>)
    /\ LET started == AlertOf("Evaluation started!", experiment_name, experiment_id, "")
           finished == AlertOf("Evaluation finished!", NoName, None, "scores")
       IN  \/ /\ alerts' = AlertAll(<<started, finished>>)
              /\ metrics' = WandbLog(<<[key |-> "scores", value |-> 0,
                                       task |-> experiment_id]>>)
              /\ run_pc' = StepAfter("evaluate")
              /\ UNCHANGED <<exc, raised_after>>
           \/ /\ \E e \in Errors : Raise(e, steps')      \* the Evaluator raises
              /\ alerts' = AlertAll(<<started>>)
              /\ UNCHANGED metrics
    /\ UNCHANGED <<split_vars, ewc_vars, sched_vars, task_vars>>
    /\ UNCHANGED <<logging_on, experiment_name, n_tasks, experiment_id, experiment_time,
                   training_time, index_path, test_path, dumps, caught, propagated>>

\* run_training, lines 93-101: the accelerator cache is emptied, garbage collection
\* is requested, and the loop moves to the next pair of dataloaders.
Release ==
    /\ run_pc = "release"
    /\ steps' = Append(steps, <<"release", stream_pos>>)
    /\ stream_pos' = stream_pos + 1
    /\ run_pc' = StepAfter("release")
    /\ UNCHANGED <<split_vars, ewc_vars, sched_vars, task_id, id_override>>
    /\ UNCHANGED <<logging_on, experiment_name, n_tasks, experiment_id, experiment_time,
                   training_time, index_path, test_path, alerts, metrics, dumps,
                   exc, raised_after, caught, propagated>>

\* run_training, line 103, once the stream is exhausted.
FinishTraining ==
    /\ run_pc = "loop"
    /\ stream_pos >= n_tasks
    /\ metrics' = WandbLog(<<[key |-> "training_time", value |-> training_time,
                             task |-> None]>>)
    /\ run_pc' = StepAfter("finish")
    /\ UNCHANGED <<split_vars, ewc_vars, sched_vars, task_vars>>
    /\ UNCHANGED <<logging_on, experiment_name, n_tasks, experiment_id, experiment_time,
                   training_time, index_path, test_path, alerts, dumps, steps,
                   exc, raised_after, caught, propagated>>

\* execute, line 90: self.run_testing().
RunTesting ==
    /\ run_pc = "run_testing"
    /\ \/ run_pc' = StepAfter("run_testing") /\ UNCHANGED <<exc, raised_after>>
       \/ \E e \in Errors : Raise(e, steps)
    /\ UNCHANGED <<split_vars, ewc_vars, sched_vars, task_vars>>
    /\ UNCHANGED <<logging_on, experiment_name, n_tasks, experiment_id, experiment_time,
                   training_time, index_path, test_path, alerts, metrics, dumps, steps,
                   caught, propagated>>

\* execute, lines 91-97: except Exception as e: alert, then raise.
Except ==
    /\ run_pc = "except"
    /\ caught' = caught + 1
    /\ alerts' = AlertAll(<<CrashAlert(exc)>>)
    /\ run_pc' = Reraise(exc).pc
    /\ propagated' = Reraise(exc).exc
    /\ UNCHANGED <<split_vars, ewc_vars, sched_vars, task_vars>>
    /\ UNCHANGED <<logging_on, experiment_name, n_tasks, experiment_id, experiment_time,
                   training_time, index_path, test_path, metrics, dumps, steps,
                   exc, raised_after>>

RunNext ==
    \/ Setup
    \/ StartTraining
    \/ BindTask
    \/ Fit
    \/ RecordTime
    \/ Index
    \/ Test
    \/ Evaluate
    \/ Release
    \/ FinishTraining
    \/ RunTesting
    \/ Except

SpecRun == RunInit /\ [][RunNext]_vars

(***************************************************************************)
(* Claims about the EWC strategy (checked under SpecEWC).                  *)
(***************************************************************************)
\* The trainer is inside trainer.fit, past on_train_start.
InsideFit ==
    ewc_pc \in {"training", "forward", "hook", "backward", "clip", "step", "schedule",
               "penalty_KeyError"}

\* on_before_backward has just been called for a batch.
HookCalled == ewc_pc \in {"backward", "penalty_KeyError"}

\* C1: during the task whose task id is 0 the strategy is inert: on_train_start
\* computes no Fisher matrix, and every call of on_before_backward completes and
\* returns the loss it was given.
C1_TaskZeroInert ==
    (task_id = 0 /\ InsideFit) =>
        /\ fisher_passes = 0 /\ fisher_matrix = EmptyMap
        /\ HookCalled => /\ ewc_pc = "backward"
                         /\ loss.num = base_loss * loss.den

\* C2: at the start of a task with task id > 0 the strategy holds a snapshot _means
\* whose keys are exactly the trainable parameter names and whose values are the
\* parameter values of that moment, so that every lookup _means[name] of the
\* penalty finds an entry.
C2_SnapshotAtTaskStart ==
    (task_id > 0 /\ InsideFit) =>
        /\ DOMAIN means = DOMAIN weights_at_start \cap requires_grad
        /\ \A n \in DOMAIN means : means[n] = weights_at_start[n]
        /\ \A n \in DOMAIN weights \cap requires_grad : n \in DOMAIN means

\* C3: in a task with task id > 0, on_before_backward returns
\* base_loss + lambda * sum of Fisher[name] * (param - snapshot[name])^2, which is
\* the base loss whenever lambda = 0 or the Fisher matrix is all-zero.
C3_PenalisedLoss ==
    (task_id > 0 /\ HookCalled) =>
        /\ ewc_pc = "backward"
        /\ loss.den = fisher_len
        /\ loss.num = base_loss * fisher_len
                      + ewc_lambda
                        * SumOver(DOMAIN weights,
                                  [n \in DOMAIN weights |->
                                      fisher_matrix[n] * (weights[n] - weights_at_start[n])
                                                       * (weights[n] - weights_at_start[n])])
        /\ (ewc_lambda = 0 \/ \A n \in DOMAIN fisher_matrix : fisher_matrix[n] = 0)
              => loss.num = base_loss * loss.den

(***************************************************************************)
(* Claims about the orchestrator (checked under SpecRun).                  *)
(***************************************************************************)
IsPrefix(s, t) == Len(s) <= Len(t) /\ s = SubSeq(t, 1, Len(s))

RECURSIVE StreamSteps(_, _)
StreamSteps(order, k) ==
    IF k = 0 THEN <<>>
    ELSE StreamSteps(order, k - 1) \o [j \in DOMAIN order |-> <<order[j], k - 1>>]

\* The order of a task's steps as C4 states it and as the amended claim states it.
ClaimedOrder == <<"bind", "fit", "index", "test", "evaluate", "time", "release">>
AmendedOrder == <<"bind", "fit", "time", "index", "test", "evaluate", "release">>

TrainingCompleted == run_pc \in {"run_testing", "returned"}

\* C4 as stated: every task runs bind, train, index, test, evaluate, then records its
\* elapsed time and releases memory, tasks 0..k-1 in order, each once, none
\* overlapping the next.
C4_ClaimedStepOrder ==
    /\ IsPrefix(steps, StreamSteps(ClaimedOrder, n_tasks))
    /\ TrainingCompleted => steps = StreamSteps(ClaimedOrder, n_tasks)

\* C4 amended: every task runs bind, train, record and emit the elapsed training
\* time, index, test, evaluate, release memory, in this order; tasks 0..k-1 are
\* visited in stream order, each once, and no step of a task starts before the last
\* step of the task before it has finished.
C4_StepOrder ==
    /\ IsPrefix(steps, StreamSteps(AmendedOrder, n_tasks))
    /\ TrainingCompleted => steps = StreamSteps(AmendedOrder, n_tasks)

C4_Witness ==
    /\ run_pc = "returned" /\ n_tasks = 2
    /\ Len(steps) = 14
    /\ steps[3] = <<"time", 0>> /\ steps[6] = <<"evaluate", 0>>
    /\ steps[8] = <<"bind", 1>> /\ steps[14] = <<"release", 1>>

CrashAlerts == {j \in DOMAIN alerts : alerts[j].title = "Run has crashed!"}

\* C5: an exception raised in setup or in a step of task i aborts the run: no step is
\* entered after it, the except clause of execute runs exactly once, reports the
\* error message through alert (a notification is sent only when logging is on)
\* and the same exception is handed to the caller.
C5_ExceptionAbortsRun ==
    /\ exc = NoError => /\ caught = 0 /\ propagated = NoError
                        /\ run_pc \notin {"except", "raised"}
                        /\ CrashAlerts = {}
    /\ exc # NoError =>
         /\ run_pc \in {"except", "raised"}
         /\ Len(steps) = raised_after
         /\ run_pc = "except" => caught = 0 /\ CrashAlerts = {}
         /\ run_pc = "raised" =>
              /\ caught = 1
              /\ propagated = exc
              /\ logging_on => /\ CrashAlerts = {Len(alerts)}
                               /\ Last(alerts).text = exc
              /\ ~logging_on => alerts = <<>>

C5_Witness ==
    /\ run_pc = "raised" /\ ~logging_on /\ propagated = "OOM"
    /\ n_tasks = 2 /\ steps # <<>> /\ Last(steps) = <<"test", 0>> /\ caught = 1

\* The run failed inside a step of a task (and not in setup or in run_testing).
FailedInTask ==
    run_pc = "raised" /\ steps # <<>> /\ Last(steps)[1] # "release"

\* C6 as stated: with logging on, the failure notification of a run that fails
\* during task i carries the run name and the index i.
C6_CrashAlertNamesTask ==
    (FailedInTask /\ logging_on) =>
        /\ Last(alerts).title = "Run has crashed!"
        /\ Last(alerts).name = experiment_name
        /\ Last(alerts).task = Last(steps)[2]

\* C6 amended: with logging on, the failure notification of a run that fails during
\* task i is the alert titled 'Run has crashed!' at level ERROR whose text is the
\* error message; it carries neither the run name nor a task index.
C6_CrashAlertCarriesMessageOnly ==
    (FailedInTask /\ logging_on) =>
        Last(alerts) = [title |-> "Run has crashed!", name |-> NoName, task |-> None,
                        text |-> exc, level |-> "ERROR"]

C6_Witness ==
    /\ FailedInTask /\ logging_on /\ Last(steps) = <<"fit", 1>>
    /\ Last(alerts).title = "Run has crashed!" /\ Last(alerts).text = "IOError"

(***************************************************************************)
(* Claims about the splitter (checked under SpecSplit).                    *)
(***************************************************************************)
Range(s) == {s[i] : i \in DOMAIN s}

RECURSIVE Flatten(_)
Flatten(ss) == IF ss = <<>> THEN <<>> ELSE Head(ss) \o Flatten(Tail(ss))

BagOf(s) == [x \in Range(s) |-> Cardinality({i \in DOMAIN s : s[i] = x})]

NonDecreasing(B) == \A i \in 1..(Len(B) - 1) : B[i] <= B[i + 1]

\* The boundary list the slices are taken at (cfg.run_type.sizes, scaled for the
\* validation split).
Boundaries == ChunkSizes(sizes, split_size)

\* A list of cumulative boundaries over a dataset that holds them all.
WellFormed(B) == Len(B) >= 1 /\ NonDecreasing(B) /\ Last(B) <= Len(data)

\* C7: in continual mode without split_size scaling, a list of k+1 cumulative
\* boundaries over a dataset of at least B[-1] records yields exactly k chunks, and
\* chunk i has B[i+1] - B[i] records: the shuffled records at [B[i], B[i+1]).
C7_ContinualChunks ==
    (split_pc # "ready" /\ ~baseline /\ split_size = 0 /\ WellFormed(sizes)) =>
        /\ split_pc = "returned"
        /\ Len(chunks) = Len(sizes) - 1
        /\ \A i \in 1..(Len(sizes) - 1) :
             /\ Len(chunks[i]) = sizes[i + 1] - sizes[i]
             /\ \A j \in 1..(sizes[i + 1] - sizes[i]) : chunks[i][j] = data[sizes[i] + j]

C7_Witness ==
    /\ split_pc = "returned" /\ ~baseline /\ split_size = 0
    /\ sizes = <<1, 2, 3>> /\ Len(data) = 3
    /\ Len(chunks) = 2 /\ Len(chunks[1]) = 1 /\ Len(chunks[2]) = 1

\* C8 as stated: the chunks of continual mode, taken together as a multiset, are
\* the first B[-1] shuffled records, and no two chunks share a record.
C8_ConcatIsFirstRecords ==
    (split_pc # "ready" /\ ~baseline /\ WellFormed(Boundaries)) =>
        /\ BagOf(Flatten(chunks)) = BagOf(SubSeq(data, 1, Last(Boundaries)))
        /\ \A i, j \in DOMAIN chunks : i # j => Range(chunks[i]) \cap Range(chunks[j]) = {}

\* C8 amended: the chunks of continual mode, concatenated, are the shuffled records
\* at [B[0], B[-1]) in order (the first B[-1] records only when B[0] = 0), and no
\* two chunks share a record.
C8_ConcatIsBoundedSlice ==
    (split_pc # "ready" /\ ~baseline /\ WellFormed(Boundaries)) =>
        /\ split_pc = "returned"
        /\ Flatten(chunks) = SubSeq(data, Boundaries[1] + 1, Last(Boundaries))
        /\ Len(Flatten(chunks)) = Last(Boundaries) - Boundaries[1]
        /\ \A i, j \in DOMAIN chunks : i # j => Range(chunks[i]) \cap Range(chunks[j]) = {}

C8_Witness ==
    /\ split_pc = "returned" /\ ~baseline /\ split_size = 0
    /\ sizes = <<1, 2, 3>> /\ Len(data) = 3
    /\ Flatten(chunks) = <<data[2], data[3]>>

\* C9: in baseline mode a boundary list of any length >= 1 over a dataset of at least
\* B[-1] records yields exactly one chunk, the first B[-1] shuffled records.
C9_BaselineOneChunk ==
    (split_pc # "ready" /\ baseline /\ Len(Boundaries) >= 1
        /\ Last(Boundaries) <= Len(data)) =>
        /\ split_pc = "returned"
        /\ Len(chunks) = 1
        /\ Len(chunks[1]) = Last(Boundaries)
        /\ chunks[1] = SubSeq(data, 1, Last(Boundaries))

C9_Witness ==
    /\ split_pc = "returned" /\ baseline /\ split_size = 0
    /\ sizes = <<2, 0, 2>> /\ Len(data) = 3
    /\ chunks = <<SubSeq(data, 1, 2)>>

\* C10: a boundary list that decreases somewhere, or that holds a boundary beyond
\* the dataset, makes the splitter raise: it never returns chunks for it.
Malformed(B) ==
    \/ \E i \in 1..(Len(B) - 1) : B[i] > B[i + 1]
    \/ \E i \in DOMAIN B : B[i] > Len(data)

C10_MalformedRaises ==
    (split_pc # "ready" /\ Malformed(Boundaries)) => split_pc # "returned"


(***************************************************************************)
(* Claims about the training step and the Fisher pass (checked under       *)
(* SpecEWC).                                                               *)
(***************************************************************************)
StageOrder ==
    <<"zero_grad", "forward", "penalty", "backward", "clip", "optimizer_step",
      "scheduler_step">>

\* A training step has come to its end: it returned, or the hook raised.
StepEnded ==
    \/ ewc_pc = "penalty_KeyError"
    \/ ewc_pc = "training" /\ batch_idx > 0

\* The stages a training step has entered are the first stages of StageOrder, in
\* that order and each once.
StagesEnteredInOrder == IsPrefix(stages, StageOrder)

\* C11: every training step runs its stages in the order zero gradients, forward
\* and base loss, penalty hook, backward pass, gradient clipping, optimizer step,
\* scheduler step, each once and with no stage skipped.
C11_StepRunsAllStages ==
    /\ StagesEnteredInOrder
    /\ StepEnded => stages = StageOrder

\* _diag_fisher has been called for the task and has returned or raised, and no
\* training step of the task has begun.
PassDone ==
    /\ task_id > 0
    /\ \/ ewc_pc \in {"fisher_AttributeError", "fisher_KeyError"}
       \/ ewc_pc = "training" /\ batch_idx = 0 /\ stages = <<>>

PassReturned == PassDone /\ ewc_pc = "training"

SquaredGradSum(n) ==
    SumOver(DOMAIN pass_grads,
            [b \in DOMAIN pass_grads |-> pass_grads[b][n] * pass_grads[b][n]])

\* C12: the Fisher pass leaves every parameter value as it was and steps neither
\* the optimizer nor the scheduler, whatever the number of batches and whether it
\* returns or raises; each entry it returns, fisher_matrix[n] / fisher_len, times
\* the number of batches is the sum over the batches of the squared gradient, and
\* is not negative.
C12_FisherPassReadOnly ==
    /\ PassDone => weights = weights_at_start /\ last_epoch = 0
    /\ PassReturned =>
         /\ Len(pass_grads) = n_batches
         /\ fisher_len > 0
         /\ \A n \in DOMAIN fisher_matrix :
              /\ fisher_matrix[n] * n_batches = SquaredGradSum(n) * fisher_len
              /\ fisher_matrix[n] >= 0

\* A pass over two batches or more returned an entry greater than 1 / len for a
\* parameter whose gradient was negative in a batch and whose value is not zero.
C12_Witness ==
    /\ PassReturned
    /\ n_batches >= 2
    /\ \E n \in DOMAIN fisher_matrix :
         /\ fisher_matrix[n] >= 2
         /\ \E b \in DOMAIN pass_grads : pass_grads[b][n] < 0
         /\ weights[n] # 0


(***************************************************************************)
(* Claims about the learning-rate schedule (checked under SpecSched).      *)
(***************************************************************************)
FloorFactor == [num |-> 1, den |-> FloorDen]

\* C13: the factor lr_lambda(step) is 0.5 at step w / 2 when the warmup w is even
\* and positive, does not decrease from one step to the next while step < w, does
\* not increase from one step to the next once the earlier step is >= w, and is at
\* least 1e-7 at every step >= w, past total_training_steps and for
\* w >= total_training_steps as well.
C13_LrLambdaShape ==
    /\ lr_factor.den > 0
    /\ (warmup_steps > 0 /\ warmup_steps % 2 = 0 /\ 2 * last_epoch = warmup_steps)
          => RatEq(lr_factor, [num |-> 1, den |-> 2])
    /\ (last_epoch >= 1 /\ last_epoch < warmup_steps) => RatLeq(prev_factor, lr_factor)
    /\ (last_epoch >= 1 /\ last_epoch - 1 >= warmup_steps) => RatLeq(lr_factor, prev_factor)
    /\ last_epoch >= warmup_steps => RatLeq(FloorFactor, lr_factor)

\* The scheduler went through an even positive warmup, decayed and has stepped
\* past total_training_steps, where the factor sits on the floor.
C13_Witness ==
    /\ warmup_steps > 0 /\ warmup_steps % 2 = 0
    /\ max_iterations > 0
    /\ warmup_steps < TotalTrainingSteps(max_iterations)
    /\ last_epoch > TotalTrainingSteps(max_iterations)
    /\ lr_factor = FloorFactor /\ prev_factor = FloorFactor

(***************************************************************************)
(* Claims about the task ids of a run (checked under SpecRun).             *)
(***************************************************************************)
\* A task of the stream is bound and its steps are running.
InTask == run_pc \in {"fit", "record", "index", "test", "evaluate", "release"}

\* The artifacts persisted for two different tasks have different paths.
ArtifactPathsDistinct ==
    \A j, k \in DOMAIN dumps :
        dumps[j].task # dumps[k].task => dumps[j].path # dumps[k].path

\* The first task of the stream, and no other, runs with trainer.task_id = 0.
OnlyFirstTaskHasIdZero == InTask => (task_id = 0 <=> stream_pos = 0)

\* The override is one run_training uses: given and truthy.
OverrideUsed == id_override # None /\ id_override # 0

\* C14 as stated: whether experiment.id is absent or given (0 included), the index
\* and test paths of different tasks differ and the first task is the only one
\* trained with trainer.task_id = 0.
C14_DistinctTaskIds == ArtifactPathsDistinct /\ OnlyFirstTaskHasIdZero

\* C14, amended: when experiment.id is absent or 0 the task id is the stream
\* position, the paths of different tasks differ and only the first task runs with
\* trainer.task_id = 0; when experiment.id is a non-zero override, every task runs
\* with that id, none with 0, and every artifact path carries it.
C14_TaskIdsByOverride ==
    /\ ~OverrideUsed =>
         /\ ArtifactPathsDistinct
         /\ OnlyFirstTaskHasIdZero
         /\ InTask => task_id = stream_pos /\ experiment_id = stream_pos
    /\ OverrideUsed =>
         /\ InTask => task_id = id_override /\ experiment_id = id_override
         /\ \A j \in DOMAIN dumps : dumps[j].path[3] = id_override

\* Two tasks ran to the end with experiment.id = 0 and left four artifacts, those
\* of the second task under the id 1.
C14_Witness ==
    /\ id_override = 0 /\ run_pc = "returned" /\ n_tasks = 2
    /\ Len(dumps) = 4
    /\ dumps[1].path[3] = 0 /\ dumps[3].path[3] = 1
    /\ dumps[1].task = 0 /\ dumps[3].task = 1

====
